---- MODULE Spec2Model ----
(***************************************************************************)
(* Receiver side of the payjoin negotiation as exposed by src/receive.rs:  *)
(* six handle types, each a Mutex<Option<value>>, whose methods either     *)
(* take the value out (consuming stages, prepare_psbt) or work on it in    *)
(* place under the lock (the PayjoinProposal builder methods).             *)
(*                                                                         *)
(* A call is a sequence of steps of the calling thread:                    *)
(*   LockTake -> DropGuard -> one step per predicate invocation, the last  *)
(*   of which returns                                                      *)
(* for the consuming stages that take a predicate,                         *)
(*   LockTake -> rest of the method                                        *)
(* for the other consuming methods, and                                    *)
(*   LockGuard -> body (guard held until the method returns)               *)
(* for the builder methods.  A consuming call that finds its handle empty,  *)
(* and get_transaction_to_schedule_broadcast, are one step each.  A panic   *)
(* ends the call with outcome "panic"; the caller (or another thread) may   *)
(* go on calling methods afterwards.  While a predicate runs it may call    *)
(* back into the handle its stage was called on (Reenter).                  *)
(***************************************************************************)
EXTENDS Integers, Sequences, FiniteSets

\* ------------------------------------------------------------------ bounds
MaxInputs == 2
MaxOutputs == 2
MaxContributed == 1

\* Two threads share the handles; NoThread marks a free mutex.
Threads == {"t1", "t2"}
NoThread == "free"
Caller == "t1"
ScriptTypes == {"p2wpkh", "p2sh"}
Addresses == {"fresh"}
FeeRates == {"rate"}
\* Candidate inputs offered to the selection: one that triggers an unnecessary-input
\* pattern and one that does not.
Candidates == {"triggering", "clean"}

\* Option<T>: None is the empty sequence, Some(v) a one-element sequence.
None == <<>>
Some(v) == <<v>>
IsSome(o) == o # <<>>
Unwrapped(o) == o[1]

\* ------------------------------------------------------------ naming
Stages ==
  <<"UncheckedProposal", "MaybeInputsOwned", "MaybeMixedInputScripts",
    "MaybeInputsSeen", "OutputsUnknown", "PayjoinProposal">>

\* The methods of each handle type that take the value out of the handle.
ConsumingMethods ==
  {"check_can_broadcast", "assume_interactive_receiver", "check_inputs_not_owned",
   "check_no_mixed_input_scripts", "check_no_inputs_seen_before",
   "identify_receiver_outputs", "prepare_psbt"}

\* The PayjoinProposal methods that work on the resident value under the guard.
BuilderMethods ==
  {"is_output_substitution_disabled", "contribute_witness_input",
   "contribute_non_witness_input", "substitute_output_address", "apply_fee",
   "try_preserving_privacy"}

MethodsOf(stage) ==
  CASE stage = "UncheckedProposal" ->
         {"get_transaction_to_schedule_broadcast", "check_can_broadcast",
          "assume_interactive_receiver"}
    [] stage = "MaybeInputsOwned" -> {"check_inputs_not_owned"}
    [] stage = "MaybeMixedInputScripts" -> {"check_no_mixed_input_scripts"}
    [] stage = "MaybeInputsSeen" -> {"check_no_inputs_seen_before"}
    [] stage = "OutputsUnknown" -> {"identify_receiver_outputs"}
    [] stage = "PayjoinProposal" -> BuilderMethods \cup {"prepare_psbt"}

\* The handle type each stage method returns inside Ok(Arc::new(e.into())).
SuccessorStage(m) ==
  CASE m \in {"check_can_broadcast", "assume_interactive_receiver"} -> "MaybeInputsOwned"
    [] m = "check_inputs_not_owned" -> "MaybeMixedInputScripts"
    [] m = "check_no_mixed_input_scripts" -> "MaybeInputsSeen"
    [] m = "check_no_inputs_seen_before" -> "OutputsUnknown"
    [] m = "identify_receiver_outputs" -> "PayjoinProposal"
    [] OTHER -> "none"

\* The stage methods that invoke a caller-supplied predicate.
PredicateMethods ==
  {"check_can_broadcast", "check_inputs_not_owned", "check_no_inputs_seen_before",
   "identify_receiver_outputs"}

\* What a caller-supplied predicate can answer: Ok(true), Ok(false), Err(_).
PredicateAnswers == {"true", "false", "error"}

\* handles: the handles created so far, in creation order; th: what each thread is
\* doing; passed: the stage methods that have succeeded, in order; request: the
\* body that was ingested.
VARIABLES handles, th, passed, request

vars == <<handles, th, passed, request>>

\* ------------------------------------------------------------ values
\* A request body: either malformed, or an Original PSBT with the script type of
\* each input and a number of outputs.  Script types are only ever compared with
\* each other, so a transaction of mixed input types is one whose last input
\* differs from the others.
TypesOf(k, mixed) == [i \in 1..k |-> IF mixed /\ i = k THEN "p2sh" ELSE "p2wpkh"]

Requests ==
  {[valid |-> FALSE, types |-> <<>>, nOut |-> 0]}
  \cup {[valid |-> TRUE, types |-> TypesOf(k, FALSE), nOut |-> n] :
          k \in 1..MaxInputs, n \in 1..MaxOutputs}
  \cup {[valid |-> TRUE, types |-> TypesOf(k, TRUE), nOut |-> n] :
          k \in 2..MaxInputs, n \in 1..MaxOutputs}

\* The proposal value the payjoin library keeps behind every handle: the original
\* transaction, the receiver inputs contributed, the receiver output's address and
\* whether the fee has been applied.
Proposal(body) ==
  [types |-> body.types, nOut |-> body.nOut,
   contributed |-> 0, address |-> "original", feeApplied |-> FALSE]

\* Result<T, payjoin::Error> of a library call: Ok(val) or Err(err).
PdkOk(v) == [ok |-> TRUE, val |-> Some(v), err |-> ""]
PdkErr(e) == [ok |-> FALSE, val |-> None, err |-> e]
NoRes == [ok |-> FALSE, val |-> None, err |-> "pending"]

\* What a call hands back: Ok (with the successor handle for a stage method), an
\* Err(PayjoinError::variant { message }), or a panic.  resident tells whether the
\* handle still held its value when the call ended.
\* value is what an Ok carries besides a handle (a transaction, an outpoint).
NoOut ==
  [kind |-> "none", variant |-> "", message |-> "", successor |-> 0, resident |-> FALSE,
   value |-> None]
Panic(msg) ==
  [kind |-> "panic", variant |-> "", message |-> msg, successor |-> 0, resident |-> FALSE,
   value |-> None]
OkOut(succ, res) ==
  [kind |-> "ok", variant |-> "", message |-> "", successor |-> succ, resident |-> res,
   value |-> None]
OkValue(v, res) == [OkOut(0, res) EXCEPT !.value = Some(v)]
ErrOut(variant, msg, res) ==
  [kind |-> "err", variant |-> variant, message |-> msg, successor |-> 0, resident |-> res,
   value |-> None]

\* Arguments of a call (only the ones the method reads matter).
NoArg == [fee |-> None, addr |-> "original", psbt |-> "valid", cands |-> {}]
ArgsOf(m) ==
  CASE m = "apply_fee" -> {[NoArg EXCEPT !.fee = f] : f \in {None} \cup {Some(r) : r \in FeeRates}}
    [] m = "substitute_output_address" -> {[NoArg EXCEPT !.addr = a] : a \in Addresses}
    [] m = "prepare_psbt" -> {[NoArg EXCEPT !.psbt = p] : p \in {"valid", "invalid"}}
    [] m = "try_preserving_privacy" ->
         {[NoArg EXCEPT !.cands = c] : c \in {{}, {"triggering"}, Candidates}}
    [] OTHER -> {NoArg}

\* ------------------------------------------------ the payjoin library
\* UncheckedProposal::from_request of the library: structural validation only.
PdkFromRequest(body) ==
  IF body.valid THEN PdkOk(Proposal(body)) ELSE PdkErr("RequestMalformed")

\* check_can_broadcast of the library, given the closure's result.
PdkCheckCanBroadcast(v, r) ==
  CASE r = "true" -> PdkOk(v)
    [] r = "false" -> PdkErr("OriginalPsbtNotBroadcastable")
    [] OTHER -> PdkErr(r)

PdkAssumeInteractiveReceiver(v) == PdkOk(v)

\* One iteration of the library's per-input loop, rs being the closure's results
\* so far: the loop stops at the first owned input or the first error.
PdkCheckInputsNotOwned(v, rs) ==
  LET r == rs[Len(rs)] IN
  CASE r = "true" -> [done |-> TRUE, res |-> PdkErr("InputOwned")]
    [] r = "false" /\ Len(rs) < Len(v.types) -> [done |-> FALSE, res |-> NoRes]
    [] r = "false" -> [done |-> TRUE, res |-> PdkOk(v)]
    [] OTHER -> [done |-> TRUE, res |-> PdkErr(r)]

PdkCheckNoMixedInputScripts(v) ==
  IF Cardinality({v.types[i] : i \in 1..Len(v.types)}) > 1
  THEN PdkErr("MixedInputScripts")
  ELSE PdkOk(v)

PdkCheckNoInputsSeenBefore(v, rs) ==
  LET r == rs[Len(rs)] IN
  CASE r = "true" -> [done |-> TRUE, res |-> PdkErr("InputSeen")]
    [] r = "false" /\ Len(rs) < Len(v.types) -> [done |-> FALSE, res |-> NoRes]
    [] r = "false" -> [done |-> TRUE, res |-> PdkOk(v)]
    [] OTHER -> [done |-> TRUE, res |-> PdkErr(r)]

\* The library asks the predicate about every output and stops at an error; it
\* fails when no output is the receiver's.
PdkIdentifyReceiverOutputs(v, rs) ==
  LET r == rs[Len(rs)]
      owned == {i \in 1..Len(rs) : rs[i] = "true"}
  IN
  CASE r \notin {"true", "false"} -> [done |-> TRUE, res |-> PdkErr(r)]
    [] r \in {"true", "false"} /\ Len(rs) < v.nOut -> [done |-> FALSE, res |-> NoRes]
    [] OTHER ->
         [done |-> TRUE,
          res |-> IF owned = {} THEN PdkErr("MissingPayment") ELSE PdkOk(v)]

\* Both contribute methods add one receiver input to the proposal.
PdkContributeWitnessInput(v) == [v EXCEPT !.contributed = @ + 1]
PdkContributeNonWitnessInput(v) == [v EXCEPT !.contributed = @ + 1]
PdkSubstituteOutputAddress(v, a) == [v EXCEPT !.address = a]
\* apply_fee adjusts the fee output in place; feeOk is whether the library accepts.
PdkApplyFee(v, fee, feeOk) ==
  IF feeOk THEN PdkOk([v EXCEPT !.feeApplied = TRUE]) ELSE PdkErr("FeeRejected")
PdkPreparePsbt(v, psbt) ==
  IF psbt = "valid" THEN PdkOk(v) ELSE PdkErr("PsbtRejected")
\* The selection picks a candidate that triggers no unnecessary-input pattern and
\* applies it to the proposal; with no such candidate it fails and applies nothing.
\* Ok carries <<the chosen outpoint, the proposal afterwards>>.
PdkTryPreservingPrivacy(v, cands) ==
  IF "clean" \in cands
  THEN PdkOk(<<"clean", [v EXCEPT !.contributed = @ + 1]>>)
  ELSE PdkErr("SelectionExhausted")
\* The original transaction of a proposal, as handed out for a delayed broadcast.
PdkGetTransactionToScheduleBroadcast(v) == [types |-> v.types, nOut |-> v.nOut]

\* ------------------------------------------------ the wrapper (receive.rs)
\* The take of every handle type: std::mem::replace(&mut *data_guard, None).
\* Each yields <<the value handed to the caller, what the slot holds afterwards>>.
\* (The *_keeps variants hand out the value and leave it in the slot, as a take
\* written with clone() instead of replace would.)
get_configuration_keeps(slot) == <<slot, slot>>
get_configuration(slot) == <<slot, None>>
get_owned_inputs(slot) == <<slot, None>>
get_input_scripts(slot) == <<slot, None>>
get_inputs_keeps(slot) == <<slot, slot>>
get_inputs(slot) == <<slot, None>>
get_unknown_outputs_keeps(slot) == <<slot, slot>>
get_unknown_outputs(slot) == <<slot, None>>
get_proposal_keeps(slot) == <<slot, slot>>
get_proposal(slot) == <<slot, None>>
\* self.internal.lock().unwrap().as_ref(): a look at the slot under the guard, which
\* yields <<what is seen, what the slot holds afterwards>>.  (as_ref_takes is the
\* look written with take() instead.)
as_ref_takes(slot) == <<slot, None>>
as_ref(slot) == <<slot, slot>>

TakeOf(m, slot) ==
  CASE m \in {"check_can_broadcast", "assume_interactive_receiver"} -> get_configuration(slot)
    [] m = "check_inputs_not_owned" -> get_owned_inputs(slot)
    [] m = "check_no_mixed_input_scripts" -> get_input_scripts(slot)
    [] m = "check_no_inputs_seen_before" -> get_inputs(slot)
    [] m = "identify_receiver_outputs" -> get_unknown_outputs(slot)
    [] m = "prepare_psbt" -> get_proposal(slot)

\* The closures handed to the library: Ok(e) => Ok(e), Err(e) => Err(PdkError::Server(..)).
\* (The variants are the closure with its Ok arm written wrongly: Ok(_) => Ok(true),
\* Ok(e) => Ok(!e), Ok(_) => Ok(false).)
can_broadcast_closure_accepts(a) == IF a = "error" THEN "Server" ELSE "true"
can_broadcast_closure(a) == IF a = "error" THEN "Server" ELSE a
is_owned_closure_negates(a) ==
  CASE a = "error" -> "Server" [] a = "true" -> "false" [] OTHER -> "true"
is_owned_closure_denies(a) == IF a = "error" THEN "Server" ELSE "false"
is_owned_closure(a) == IF a = "error" THEN "Server" ELSE a
is_known_closure_denies(a) == IF a = "error" THEN "Server" ELSE "false"
is_known_closure_swallows(a) == IF a = "error" THEN "false" ELSE a
is_known_closure(a) == IF a = "error" THEN "Server" ELSE a
is_receiver_output_closure_denies(a) == IF a = "error" THEN "Server" ELSE "false"
is_receiver_output_closure_accepts(a) == IF a = "error" THEN "Server" ELSE "true"
is_receiver_output_closure(a) == IF a = "error" THEN "Server" ELSE a

\* The match on the library's result at the end of each method; succ is the
\* handle a success creates.
check_can_broadcast_result(res, succ) ==
  IF res.ok THEN OkOut(succ, FALSE) ELSE ErrOut("UnexpectedError", res.err, FALSE)
assume_interactive_receiver_result(res, succ) == OkOut(succ, FALSE)
check_inputs_not_owned_result(res, succ) ==
  IF res.ok THEN OkOut(succ, FALSE) ELSE ErrOut("ServerError", res.err, FALSE)
check_no_mixed_input_scripts_result_unexpected(res, succ) ==
  IF res.ok THEN OkOut(succ, FALSE) ELSE ErrOut("UnexpectedError", res.err, FALSE)
check_no_mixed_input_scripts_result(res, succ) ==
  IF res.ok THEN OkOut(succ, FALSE) ELSE ErrOut("ReceiveError", res.err, FALSE)
check_no_inputs_seen_before_result(res, succ) ==
  IF res.ok THEN OkOut(succ, FALSE) ELSE ErrOut("ReceiveError", res.err, FALSE)
identify_receiver_outputs_result(res, succ) ==
  IF res.ok THEN OkOut(succ, FALSE) ELSE ErrOut("ReceiveError", res.err, FALSE)
apply_fee_result(res) ==
  IF res.ok THEN OkOut(0, TRUE) ELSE ErrOut("RequestError", res.err, TRUE)
prepare_psbt_result(res) ==
  IF res.ok THEN OkOut(0, FALSE) ELSE ErrOut("RequestError", res.err, FALSE)
\* Ok(e) => Ok(OutPoint {..}), Err(_) => Err(PayjoinError::SelectionError): the
\* library's error is dropped.  (The variant reports the selection as done whatever
\* the library said.)
try_preserving_privacy_result_swallows(res) == OkValue("none", TRUE)
try_preserving_privacy_result(res) ==
  IF res.ok THEN OkValue(Unwrapped(res.val)[1], TRUE) ELSE ErrOut("SelectionError", "", TRUE)

\* impl From<Pdk...> for ...: a fresh handle, Mutex::new(Some(value)).
\* consumed, obtained and returned record what has been done to the handle so
\* far (a take was executed, how many takes found a value, a consuming call has
\* ended); no method reads them.
NewHandle(stage, value, parent) ==
  [stage |-> stage, internal |-> Some(value), lock |-> NoThread, poisoned |-> FALSE,
   parent |-> parent, consumed |-> FALSE, obtained |-> 0, returned |-> FALSE]

Idle ==
  [pc |-> "idle", h |-> 0, m |-> "", arg |-> NoArg, taken |-> None, got |-> FALSE,
   answers |-> <<>>, out |-> NoOut, reuse |-> FALSE, afterFee |-> FALSE,
   changed |-> FALSE, inner |-> "none"]

\* ------------------------------------------------------------ state
NoRequest == [valid |-> FALSE, types |-> <<>>, nOut |-> 0]

Init ==
  /\ handles = <<>>
  /\ th = [t \in Threads |-> Idle]
  /\ passed = <<>>
  /\ request = NoRequest

\* UncheckedProposal::from_request: Ok(e) => Ok(e.into()), Err => RequestError.
\* One request is followed; a malformed body yields no handle.
from_request(body) ==
  /\ handles = <<>>
  /\ LET res == PdkFromRequest(body) IN
       handles' = IF res.ok
                  THEN <<NewHandle("UncheckedProposal", Unwrapped(res.val), 0)>>
                  ELSE handles
  /\ request' = body
  /\ UNCHANGED <<th, passed>>

\* A thread enters method m of handle h, which it shares, with arguments arg.  The
\* entry is taken together with the lock acquisition that opens every method: a
\* thread that finds the mutex held waits, which is this action being disabled.
\* reuse: a consuming call on the handle had already ended when this one began;
\* afterFee: the fee had already been applied to the resident value; got (set
\* with the lock held): the call found a value in the handle.
Enter(t, h, m, arg) ==
  [Idle EXCEPT !.h = h, !.m = m, !.arg = arg,
               !.reuse = handles[h].returned,
               !.afterFee = IsSome(handles[h].internal)
                              /\ Unwrapped(handles[h].internal).feeApplied]

CanCall(t, h, m, arg) ==
  /\ th[t].pc \in {"idle", "done", "unwound"}
  /\ h \in 1..Len(handles)
  /\ m \in MethodsOf(handles[h].stage)
  /\ arg \in ArgsOf(m)
  /\ handles[h].lock = NoThread

\* The threads run the same code, so the outcome of the last call is kept for one of
\* them (Caller); the others go back to idle once their call has ended.
Ended(c, o) ==
  IF c.t = Caller THEN [c.rec EXCEPT !.pc = "done", !.out = o, !.taken = None] ELSE Idle

Me(t) == [t |-> t, rec |-> th[t]]

\* A call ended by a panic raised inside its predicate, not by its own code.
Unwound(c, o) ==
  IF c.t = Caller THEN [c.rec EXCEPT !.pc = "unwound", !.out = o, !.taken = None] ELSE Idle

\* The take handed back None: the guard goes, and proposal.unwrap() (or the None
\* arm, or the is_none test) panics.  Nothing the call does between its lock() and
\* its panic changes the handle, so the call is one step.
TakenNonePanics(t, h, m, arg) ==
  /\ th' = [th EXCEPT ![t] =
              Ended([t |-> t, rec |-> Enter(t, h, m, arg)], Panic("unwrap on None"))]
  /\ handles' = [handles EXCEPT ![h].returned = TRUE, ![h].consumed = TRUE]

\* self.internal.lock().unwrap() followed by the replace, in a consuming method.
\* A poisoned mutex makes lock().unwrap() panic.
LockTake(t, h, m, arg) ==
  LET pair == TakeOf(m, handles[h].internal) IN
  /\ CanCall(t, h, m, arg)
  /\ m \in ConsumingMethods
  /\ IF handles[h].poisoned
     THEN /\ th' = [th EXCEPT ![t] =
                      Ended([t |-> t, rec |-> Enter(t, h, m, arg)], Panic("PoisonError"))]
          /\ handles' = [handles EXCEPT ![h].returned = TRUE]
     ELSE IF pair[1] = None
     THEN TakenNonePanics(t, h, m, arg)
     ELSE /\ th' = [th EXCEPT ![t] =
                      [Enter(t, h, m, arg) EXCEPT !.pc = "holding", !.taken = pair[1],
                                                  !.got = IsSome(pair[1])]]
          /\ handles' = [handles EXCEPT ![h].internal = pair[2], ![h].lock = t,
                                        ![h].consumed = TRUE,
                                        ![h].obtained = IF IsSome(pair[1]) THEN @ + 1 ELSE @]
  /\ UNCHANGED <<passed, request>>

\* The value the call took out of the handle.
Taken(t) == Unwrapped(th[t].taken)

Holding(t, m) == th[t].pc = "holding" /\ th[t].m = m

\* (The stage written with `let (proposal, _guard) = ...`: the guard lives until
\* the method returns.)
DropGuard_keeps(t) ==
  /\ th[t].pc = "holding"
  /\ th[t].m \in PredicateMethods
  /\ th' = [th EXCEPT ![t].pc = "pred"]
  /\ UNCHANGED <<handles, passed, request>>

\* In a stage that takes a predicate: the guard returned by the take is dropped at
\* the end of the let statement, then the value is unwrapped and handed to the
\* library, which is about to invoke the predicate.
DropGuard(t) ==
  /\ th[t].pc = "holding"
  /\ th[t].m \in PredicateMethods
  /\ th' = [th EXCEPT ![t].pc = "pred"]
  /\ handles' = [handles EXCEPT ![th[t].h].lock = NoThread]
  /\ UNCHANGED <<passed, request>>

\* A stage method returns: Ok wraps the library's next-stage value in a new handle.
StageReturn(t, answers, res, o) ==
  LET h == th[t].h
      marked == [handles EXCEPT ![h].returned = TRUE, ![h].lock = NoThread]
  IN
  /\ th' = [th EXCEPT ![t] = Ended([t |-> t, rec |-> [th[t] EXCEPT !.answers = answers]], o)]
  /\ handles' = IF o.kind = "ok"
                THEN Append(marked, NewHandle(SuccessorStage(th[t].m), Unwrapped(res.val), h))
                ELSE marked
  /\ passed' = IF o.kind = "ok" THEN Append(passed, th[t].m) ELSE passed
  /\ UNCHANGED request

\* The library is not done with its loop: it will invoke the predicate again.
NextInvocation(t, answers) ==
  /\ th' = [th EXCEPT ![t].answers = answers]
  /\ UNCHANGED <<handles, passed, request>>

\* UncheckedProposal::get_transaction_to_schedule_broadcast: lock, as_ref, unwrap,
\* read, all in one expression whose guard is dropped at its end.  On an emptied
\* handle the unwrap panics with the guard alive, which poisons the mutex.
get_transaction_to_schedule_broadcast(t, h) ==
  LET m == "get_transaction_to_schedule_broadcast"
      pair == as_ref(handles[h].internal)
      c == [t |-> t, rec |-> [Enter(t, h, m, NoArg) EXCEPT !.got = IsSome(pair[1])]]
  IN
  /\ CanCall(t, h, m, NoArg)
  /\ IF handles[h].poisoned
     THEN /\ th' = [th EXCEPT ![t] = Ended(c, Panic("PoisonError"))]
          /\ UNCHANGED handles
     ELSE IF IsSome(pair[1])
     THEN /\ th' = [th EXCEPT ![t] =
                      Ended(c, OkValue(PdkGetTransactionToScheduleBroadcast(
                                         Unwrapped(pair[1])), TRUE))]
          /\ handles' = [handles EXCEPT ![h].internal = pair[2]]
     ELSE /\ th' = [th EXCEPT ![t] = Ended(c, Panic("unwrap on None"))]
          /\ handles' = [handles EXCEPT ![h].poisoned = TRUE]
  /\ UNCHANGED <<passed, request>>

\* The predicate of thread t's stage call, while it runs, calls method m of the
\* handle the stage was called on.  The call starts with lock(): held by another
\* thread, it waits (the action is disabled); held by the calling thread itself, it
\* never returns; free, the call goes on, finds the slot as the take left it, and on
\* None panics.  The panic unwinds through the predicate and the stage call.
AllMethods ==
  ConsumingMethods \cup BuilderMethods \cup {"get_transaction_to_schedule_broadcast"}

Reenter(t, m) ==
  LET h == th[t].h
      seen == IF m \in ConsumingMethods THEN TakeOf(m, handles[h].internal)[1]
              ELSE handles[h].internal
      guarded == m \notin ConsumingMethods
  IN
  /\ th[t].pc = "pred"
  /\ m \in MethodsOf(handles[h].stage)
  /\ handles[h].lock \in {NoThread, t}
  /\ IF handles[h].lock = t
     THEN /\ th' = [th EXCEPT ![t].pc = "blocked", ![t].inner = "blocked"]
          /\ UNCHANGED handles
     ELSE IF handles[h].poisoned
     THEN /\ th' = [th EXCEPT ![t] =
                      Unwound([t |-> t, rec |-> [th[t] EXCEPT !.inner = "panic"]],
                              Panic("PoisonError"))]
          /\ handles' = [handles EXCEPT ![h].returned = TRUE]
     ELSE IF IsSome(seen)
     THEN /\ th' = [th EXCEPT ![t].inner = "found"]
          /\ UNCHANGED handles
     ELSE /\ th' = [th EXCEPT ![t] =
                      Unwound([t |-> t, rec |-> [th[t] EXCEPT !.inner = "panic"]],
                              Panic("unwrap on None"))]
          /\ handles' = [handles EXCEPT ![h].returned = TRUE,
                                        ![h].poisoned = @ \/ guarded]
  /\ UNCHANGED <<passed, request>>

\* check_can_broadcast from the predicate invocation on: the caller's
\* test_mempool_accept answers a, the library decides, the result is matched.
check_can_broadcast(t, a) ==
  /\ th[t].pc = "pred"
  /\ th[t].m = "check_can_broadcast"
  /\ LET res == PdkCheckCanBroadcast(Taken(t), can_broadcast_closure(a)) IN
       StageReturn(t, <<a>>, res, check_can_broadcast_result(res, Len(handles) + 1))

\* assume_interactive_receiver once the take is done.
assume_interactive_receiver(t) ==
  /\ Holding(t, "assume_interactive_receiver")
  /\ LET res == PdkAssumeInteractiveReceiver(Taken(t)) IN
       StageReturn(t, <<>>, res, assume_interactive_receiver_result(res, Len(handles) + 1))

\* check_inputs_not_owned: one invocation of the caller's is_owned, answering a,
\* on the next input script; the method returns when the library's loop ends.
check_inputs_not_owned(t, a) ==
  LET answers == Append(th[t].answers, a)
      step == PdkCheckInputsNotOwned(
                Taken(t), [i \in 1..Len(answers) |-> is_owned_closure(answers[i])])
  IN
  /\ th[t].pc = "pred"
  /\ th[t].m = "check_inputs_not_owned"
  /\ IF step.done
     THEN StageReturn(t, answers, step.res,
                      check_inputs_not_owned_result(step.res, Len(handles) + 1))
     ELSE NextInvocation(t, answers)

\* check_no_mixed_input_scripts once the take is done.
check_no_mixed_input_scripts(t) ==
  /\ Holding(t, "check_no_mixed_input_scripts")
  /\ LET res == PdkCheckNoMixedInputScripts(Taken(t)) IN
       StageReturn(t, <<>>, res, check_no_mixed_input_scripts_result(res, Len(handles) + 1))

\* check_no_inputs_seen_before: one invocation of the caller's is_known, answering
\* a, on the next input's outpoint.
check_no_inputs_seen_before(t, a) ==
  LET answers == Append(th[t].answers, a)
      step == PdkCheckNoInputsSeenBefore(
                Taken(t), [i \in 1..Len(answers) |-> is_known_closure(answers[i])])
  IN
  /\ th[t].pc = "pred"
  /\ th[t].m = "check_no_inputs_seen_before"
  /\ IF step.done
     THEN StageReturn(t, answers, step.res,
                      check_no_inputs_seen_before_result(step.res, Len(handles) + 1))
     ELSE NextInvocation(t, answers)

\* identify_receiver_outputs: one invocation of the caller's is_owned, answering a,
\* on the next output script.
identify_receiver_outputs(t, a) ==
  LET answers == Append(th[t].answers, a)
      step == PdkIdentifyReceiverOutputs(
                Taken(t), [i \in 1..Len(answers) |-> is_receiver_output_closure(answers[i])])
  IN
  /\ th[t].pc = "pred"
  /\ th[t].m = "identify_receiver_outputs"
  /\ IF step.done
     THEN StageReturn(t, answers, step.res,
                      identify_receiver_outputs_result(step.res, Len(handles) + 1))
     ELSE NextInvocation(t, answers)

\* prepare_psbt once get_proposal has returned a value: the library merges the
\* signed PSBT.
prepare_psbt(t) ==
  /\ Holding(t, "prepare_psbt")
  /\ LET res == PdkPreparePsbt(Taken(t), th[t].arg.psbt) IN
       /\ th' = [th EXCEPT ![t] = Ended(Me(t), prepare_psbt_result(res))]
       /\ handles' = [handles EXCEPT ![th[t].h].returned = TRUE,
                                     ![th[t].h].lock = NoThread]
       /\ UNCHANGED <<passed, request>>

\* ------------------------------------------------ the builder methods
\* (The guard obtained without waiting for the mutex to be free.)
LockGuard_unlocked(t, h, m, arg) ==
  /\ th[t].pc \in {"idle", "done", "unwound"}
  /\ h \in 1..Len(handles)
  /\ m \in MethodsOf(handles[h].stage)
  /\ arg \in ArgsOf(m)
  /\ m \in BuilderMethods
  /\ th' = [th EXCEPT ![t] = [Enter(t, h, m, arg) EXCEPT
                                !.pc = "holding", !.got = IsSome(handles[h].internal)]]
  /\ handles' = [handles EXCEPT ![h].lock = t]
  /\ UNCHANGED <<passed, request>>

\* get_proposal_mutex_guard: self.internal.lock().unwrap(); the value stays put.
\* The number of contributed inputs is capped at MaxContributed.
LockGuard(t, h, m, arg) ==
  /\ CanCall(t, h, m, arg)
  /\ m \in BuilderMethods
  /\ ((m \in {"contribute_witness_input", "contribute_non_witness_input"}
          \/ (m = "try_preserving_privacy" /\ "clean" \in arg.cands))
        /\ IsSome(handles[h].internal))
       => Unwrapped(handles[h].internal).contributed < MaxContributed
  /\ IF handles[h].poisoned
     THEN /\ th' = [th EXCEPT ![t] =
                      Ended([t |-> t, rec |-> Enter(t, h, m, arg)], Panic("PoisonError"))]
          /\ UNCHANGED handles
     ELSE /\ th' = [th EXCEPT ![t] = [Enter(t, h, m, arg) EXCEPT
                                        !.pc = "holding",
                                        !.got = IsSome(handles[h].internal)]]
          /\ handles' = [handles EXCEPT ![h].lock = t]
  /\ UNCHANGED <<passed, request>>

\* The value the guard gives access to.
Resident(t) == Unwrapped(handles[th[t].h].internal)

\* guard.as_mut().unwrap() on an emptied handle: the panic unwinds through the
\* live guard, which poisons the mutex and releases it.
UnwrapPanics(t) ==
  /\ th' = [th EXCEPT ![t] = Ended(Me(t), Panic("unwrap on None"))]
  /\ handles' = [handles EXCEPT ![th[t].h].lock = NoThread, ![th[t].h].poisoned = TRUE]

\* The proposal's inputs and outputs.
InputsOutputs(v) == <<v.contributed, v.address>>

\* (The body written on a value taken out of the handle, which is dropped at the
\* end of the method.)
BodyDone_drops(t, v, o) ==
  /\ th' = [th EXCEPT ![t] = Ended(Me(t), o)]
  /\ handles' = [handles EXCEPT ![th[t].h].internal = None, ![th[t].h].lock = NoThread]

\* The method's body ran on the resident value, which is now v; the guard is
\* dropped when the method returns o.
BodyDone(t, v, o) ==
  /\ th' = [th EXCEPT ![t] =
              Ended([t |-> t,
                     rec |-> [th[t] EXCEPT
                                !.changed = InputsOutputs(v) # InputsOutputs(Resident(t))]],
                    o)]
  /\ handles' = [handles EXCEPT ![th[t].h].internal = Some(v), ![th[t].h].lock = NoThread]

is_output_substitution_disabled(t) ==
  /\ Holding(t, "is_output_substitution_disabled")
  /\ IF IsSome(handles[th[t].h].internal)
     THEN BodyDone(t, Resident(t), OkOut(0, TRUE))
     ELSE UnwrapPanics(t)
  /\ UNCHANGED <<passed, request>>

contribute_witness_input(t) ==
  /\ Holding(t, "contribute_witness_input")
  /\ IF IsSome(handles[th[t].h].internal)
     THEN BodyDone(t, PdkContributeWitnessInput(Resident(t)), OkOut(0, TRUE))
     ELSE UnwrapPanics(t)
  /\ UNCHANGED <<passed, request>>

contribute_non_witness_input(t) ==
  /\ Holding(t, "contribute_non_witness_input")
  /\ IF IsSome(handles[th[t].h].internal)
     THEN BodyDone(t, PdkContributeNonWitnessInput(Resident(t)), OkOut(0, TRUE))
     ELSE UnwrapPanics(t)
  /\ UNCHANGED <<passed, request>>

substitute_output_address(t) ==
  /\ Holding(t, "substitute_output_address")
  /\ IF IsSome(handles[th[t].h].internal)
     THEN BodyDone(t, PdkSubstituteOutputAddress(Resident(t), th[t].arg.addr), OkOut(0, TRUE))
     ELSE UnwrapPanics(t)
  /\ UNCHANGED <<passed, request>>

\* apply_fee: with no minimum fee rate the library's computation succeeds; with one
\* it may reject, and then the resident value is as before.
apply_fee(t, feeOk) ==
  /\ Holding(t, "apply_fee")
  /\ th[t].arg.fee = None => feeOk
  /\ IF IsSome(handles[th[t].h].internal)
     THEN LET res == PdkApplyFee(Resident(t), th[t].arg.fee, feeOk) IN
            BodyDone(t, IF res.ok THEN Unwrapped(res.val) ELSE Resident(t),
                     apply_fee_result(res))
     ELSE UnwrapPanics(t)
  /\ UNCHANGED <<passed, request>>

\* try_preserving_privacy: the candidate map is converted before the guard is
\* taken; the selection then runs on the resident value under the guard.
try_preserving_privacy(t) ==
  /\ Holding(t, "try_preserving_privacy")
  /\ IF IsSome(handles[th[t].h].internal)
     THEN LET res == PdkTryPreservingPrivacy(Resident(t), th[t].arg.cands) IN
            BodyDone(t, IF res.ok THEN Unwrapped(res.val)[2] ELSE Resident(t),
                     try_preserving_privacy_result(res))
     ELSE UnwrapPanics(t)
  /\ UNCHANGED <<passed, request>>

\* ------------------------------------------------------------ behaviour
Next ==
  \/ \E body \in Requests : from_request(body)
  \/ \E t \in Threads, h \in 1..Len(handles) :
       \E m \in MethodsOf(handles[h].stage) : \E arg \in ArgsOf(m) : LockTake(t, h, m, arg)
  \/ \E t \in Threads : DropGuard(t)
  \/ \E t \in Threads, h \in 1..Len(handles) : get_transaction_to_schedule_broadcast(t, h)
  \/ \E t \in Threads, m \in AllMethods : Reenter(t, m)
  \/ \E t \in Threads, a \in PredicateAnswers : check_can_broadcast(t, a)
  \/ \E t \in Threads : assume_interactive_receiver(t)
  \/ \E t \in Threads, a \in PredicateAnswers : check_inputs_not_owned(t, a)
  \/ \E t \in Threads : check_no_mixed_input_scripts(t)
  \/ \E t \in Threads, a \in PredicateAnswers : check_no_inputs_seen_before(t, a)
  \/ \E t \in Threads, a \in PredicateAnswers : identify_receiver_outputs(t, a)
  \/ \E t \in Threads : prepare_psbt(t)
  \/ \E t \in Threads, h \in 1..Len(handles) :
       \E m \in MethodsOf(handles[h].stage) : \E arg \in ArgsOf(m) : LockGuard(t, h, m, arg)
  \/ \E t \in Threads : is_output_substitution_disabled(t)
  \/ \E t \in Threads : contribute_witness_input(t)
  \/ \E t \in Threads : contribute_non_witness_input(t)
  \/ \E t \in Threads : substitute_output_address(t)
  \/ \E t \in Threads, feeOk \in BOOLEAN : apply_fee(t, feeOk)
  \/ \E t \in Threads : try_preserving_privacy(t)

Spec == Init /\ [][Next]_vars

\* ------------------------------------------------------------ properties
HandleIds == 1..Len(handles)

\* Thread t's last call was method m and has ended.
DoneCall(t, m) == th[t].pc = "done" /\ th[t].m = m

\* Thread t's ended call returned Ok with a new handle of the given stage, made
\* from the handle it was called on.
Yields(t, stage) ==
  /\ th[t].out.kind = "ok"
  /\ th[t].out.successor \in HandleIds
  /\ handles[th[t].out.successor].stage = stage
  /\ handles[th[t].out.successor].parent = th[t].h

\* Thread t's ended call returned Err(variant { message }).
Fails(t, variant, message) ==
  /\ th[t].out.kind = "err"
  /\ th[t].out.variant = variant
  /\ th[t].out.message = message

Successors(h) == {k \in HandleIds : handles[k].parent = h}

\* Every answer the predicate gave during thread t's call was a.
AllAnswers(t, a) == \A i \in 1..Len(th[t].answers) : th[t].answers[i] = a
SomeAnswer(t, a) == \E i \in 1..Len(th[t].answers) : th[t].answers[i] = a

UniformInputs == Cardinality({request.types[i] : i \in 1..Len(request.types)}) <= 1

\* C1: a consuming stage method called again on a handle, after a consuming call
\* on that handle has ended, returns a reported IllegalReuse error: it neither
\* succeeds nor panics.
C1_SecondCallReportsIllegalReuse ==
  \A t \in Threads :
    (th[t].pc = "done" /\ th[t].m \in ConsumingMethods /\ th[t].reuse)
      => (th[t].out.kind = "err" /\ th[t].out.variant = "IllegalReuse")

\* C2: a handle holds at most one value, and once a consuming method has executed
\* its take on a handle the handle is empty in every later state, whatever the
\* outcome of that call: nothing puts a value back.
C2_ConsumedHandleStaysEmpty ==
  \A h \in HandleIds :
    /\ Len(handles[h].internal) <= 1
    /\ handles[h].consumed => handles[h].internal = None

\* A stage failed on a handle, a later consuming call on the same handle has ended
\* too, and the handle is empty.
C2_Witness ==
  \E h \in HandleIds :
    /\ handles[h].consumed /\ handles[h].internal = None /\ Successors(h) = {}
    /\ handles[h].stage = "MaybeInputsSeen"
    /\ DoneCall(Caller, "check_no_inputs_seen_before")
    /\ th[Caller].h = h /\ th[Caller].reuse

\* C3: once apply_fee has been applied on a PayjoinProposal handle, a later
\* contribute_witness_input, contribute_non_witness_input or
\* substitute_output_address on that handle fails and leaves the proposal's inputs
\* and outputs unchanged.
C3_FeeBarrier ==
  \A t \in Threads :
    (th[t].pc = "done" /\ th[t].afterFee
       /\ th[t].m \in {"contribute_witness_input", "contribute_non_witness_input",
                       "substitute_output_address"})
      => (th[t].out.kind \in {"err", "panic"} /\ ~th[t].changed)

\* C4: whatever the interleaving of the threads' calls, at most one take on a
\* handle obtains its value, and at most one successor handle is ever made from it.
C4_AtMostOneSuccessor ==
  \A h \in HandleIds :
    /\ handles[h].obtained <= 1
    /\ Cardinality(Successors(h)) <= 1

\* Two threads called check_can_broadcast and assume_interactive_receiver on the
\* same UncheckedProposal handle at once: one is about to invoke its predicate on
\* the value it obtained, the other took meanwhile, found nothing and has ended.
C4_Witness ==
  \E t \in Threads \ {Caller} :
    /\ th[t].h = th[Caller].h
    /\ th[t].pc = "pred" /\ th[t].m = "check_can_broadcast" /\ th[t].got
    /\ DoneCall(Caller, "assume_interactive_receiver")
    /\ ~th[Caller].got /\ ~th[Caller].reuse /\ th[Caller].out.kind = "panic"

\* C5: the stage methods succeed in the fixed order, each at most once, and a
\* PayjoinProposal handle exists only when all five have succeeded.
StageOrder ==
  <<{"check_can_broadcast", "assume_interactive_receiver"}, {"check_inputs_not_owned"},
    {"check_no_mixed_input_scripts"}, {"check_no_inputs_seen_before"},
    {"identify_receiver_outputs"}>>

C5_StagesPassedInOrder ==
  /\ Len(passed) <= Len(StageOrder)
  /\ \A i \in 1..Len(passed) : passed[i] \in StageOrder[i]
  /\ \A h \in HandleIds :
       /\ handles[h].stage = "PayjoinProposal" => Len(passed) = Len(StageOrder)
       /\ h > 1 => /\ handles[h].parent = h - 1
                   /\ handles[h].stage = Stages[h]
                   /\ Len(passed) >= h - 1

C5_Witness ==
  \E h \in HandleIds :
    /\ handles[h].stage = "PayjoinProposal"
    /\ passed[1] = "check_can_broadcast"

\* C6: from an ingested request, assume_interactive_receiver yields a
\* MaybeInputsOwned; check_inputs_not_owned with no input owned yields a
\* MaybeMixedInputScripts; check_no_mixed_input_scripts with inputs of one script
\* type yields a MaybeInputsSeen; check_no_inputs_seen_before with no outpoint seen
\* yields an OutputsUnknown; identify_receiver_outputs with an owned output yields a
\* PayjoinProposal; and apply_fee(None) on it succeeds and leaves it resident.
C6_HappyPath ==
  \A t \in Threads :
    /\ (request.valid /\ handles # <<>>) => handles[1].stage = "UncheckedProposal"
    /\ (DoneCall(t, "assume_interactive_receiver") /\ th[t].got)
         => Yields(t, "MaybeInputsOwned")
    /\ (DoneCall(t, "check_inputs_not_owned") /\ th[t].got /\ AllAnswers(t, "false"))
         => Yields(t, "MaybeMixedInputScripts")
    /\ (DoneCall(t, "check_no_mixed_input_scripts") /\ th[t].got /\ UniformInputs)
         => Yields(t, "MaybeInputsSeen")
    /\ (DoneCall(t, "check_no_inputs_seen_before") /\ th[t].got /\ AllAnswers(t, "false"))
         => Yields(t, "OutputsUnknown")
    /\ (DoneCall(t, "identify_receiver_outputs") /\ th[t].got
          /\ SomeAnswer(t, "true") /\ ~SomeAnswer(t, "error"))
         => Yields(t, "PayjoinProposal")
    /\ (DoneCall(t, "apply_fee") /\ th[t].got /\ th[t].arg.fee = None)
         => (th[t].out.kind = "ok" /\ th[t].out.resident)

\* The whole path was walked through assume_interactive_receiver and apply_fee(None)
\* has returned Ok.
C6_Witness ==
  /\ Len(passed) = 5 /\ passed[1] = "assume_interactive_receiver"
  /\ DoneCall(Caller, "apply_fee") /\ th[Caller].arg.fee = None
  /\ th[Caller].out.kind = "ok" /\ th[Caller].out.resident
  /\ IsSome(handles[th[Caller].h].internal)

\* C7 as stated: with predicates that always answer "not owned" and "not seen",
\* every stage of an ingested request succeeds and apply_fee(None) returns a
\* transaction (the request's inputs being of one script type, as in the sample).
C7_AlwaysFalsePredicatesSucceed ==
  \A t \in Threads :
    /\ (DoneCall(t, "check_can_broadcast") /\ th[t].got /\ AllAnswers(t, "true"))
         => th[t].out.kind = "ok"
    /\ (DoneCall(t, "assume_interactive_receiver") /\ th[t].got) => th[t].out.kind = "ok"
    /\ (DoneCall(t, "check_inputs_not_owned") /\ th[t].got /\ AllAnswers(t, "false"))
         => th[t].out.kind = "ok"
    /\ (DoneCall(t, "check_no_mixed_input_scripts") /\ th[t].got /\ UniformInputs)
         => th[t].out.kind = "ok"
    /\ (DoneCall(t, "check_no_inputs_seen_before") /\ th[t].got /\ AllAnswers(t, "false"))
         => th[t].out.kind = "ok"
    /\ (DoneCall(t, "identify_receiver_outputs") /\ th[t].got /\ AllAnswers(t, "false"))
         => th[t].out.kind = "ok"
    /\ (DoneCall(t, "apply_fee") /\ th[t].got /\ th[t].arg.fee = None)
         => th[t].out.kind = "ok"

\* C7 amended: the stages succeed with "not owned" for every input script and "not
\* seen" for every outpoint when the inputs have one script type; with "not owned"
\* for every output script identify_receiver_outputs fails (MissingPayment) and
\* makes no PayjoinProposal, and it succeeds when some output is owned; apply_fee(None)
\* on the PayjoinProposal then returns a transaction.
C7_Amended ==
  \A t \in Threads :
    /\ (DoneCall(t, "check_can_broadcast") /\ th[t].got /\ AllAnswers(t, "true"))
         => Yields(t, "MaybeInputsOwned")
    /\ (DoneCall(t, "assume_interactive_receiver") /\ th[t].got)
         => Yields(t, "MaybeInputsOwned")
    /\ (DoneCall(t, "check_inputs_not_owned") /\ th[t].got /\ AllAnswers(t, "false"))
         => Yields(t, "MaybeMixedInputScripts")
    /\ (DoneCall(t, "check_no_mixed_input_scripts") /\ th[t].got)
         => IF UniformInputs THEN Yields(t, "MaybeInputsSeen")
            ELSE Fails(t, "ReceiveError", "MixedInputScripts")
    /\ (DoneCall(t, "check_no_inputs_seen_before") /\ th[t].got /\ AllAnswers(t, "false"))
         => Yields(t, "OutputsUnknown")
    /\ (DoneCall(t, "identify_receiver_outputs") /\ th[t].got /\ ~SomeAnswer(t, "error"))
         => IF SomeAnswer(t, "true") THEN Yields(t, "PayjoinProposal")
            ELSE Fails(t, "ReceiveError", "MissingPayment") /\ Successors(th[t].h) = {}
    /\ (DoneCall(t, "apply_fee") /\ th[t].got /\ th[t].arg.fee = None /\ Len(passed) = 5)
         => th[t].out.kind = "ok"

\* identify_receiver_outputs was asked about every output of a two-output
\* transaction, heard "not owned" each time, and failed.
C7_Witness ==
  /\ DoneCall(Caller, "identify_receiver_outputs") /\ th[Caller].got
  /\ th[Caller].answers = <<"false", "false">>
  /\ Fails(Caller, "ReceiveError", "MissingPayment")
  /\ \A h \in HandleIds : handles[h].stage # "PayjoinProposal"

\* C8: check_can_broadcast yields a MaybeInputsOwned exactly when the mempool
\* predicate answered true; when it answered false or failed, the call fails, no
\* successor handle exists, and in either case the UncheckedProposal handle is
\* left empty.
C8_CheckCanBroadcast ==
  \A t \in Threads :
    (DoneCall(t, "check_can_broadcast") /\ th[t].answers # <<>>)
      => /\ th[t].answers[1] = "true" <=> Yields(t, "MaybeInputsOwned")
         /\ th[t].answers[1] = "false"
              => /\ Fails(t, "UnexpectedError", "OriginalPsbtNotBroadcastable")
                 /\ Successors(th[t].h) = {}
         /\ th[t].answers[1] = "error"
              => /\ Fails(t, "UnexpectedError", "Server")
                 /\ Successors(th[t].h) = {}
         /\ handles[th[t].h].internal = None

\* The predicate answered false, the call failed, and another call on the handle
\* was made meanwhile (one that began before this one ended).
C8_Witness ==
  /\ DoneCall(Caller, "check_can_broadcast")
  /\ th[Caller].answers = <<"false">>
  /\ th[Caller].out.kind = "err"
  /\ handles[th[Caller].h].internal = None
  /\ handles[th[Caller].h].poisoned

\* C9: when the ownership predicate answered true for an input's script,
\* check_inputs_not_owned fails, reporting the owned input, and no
\* MaybeMixedInputScripts handle is made.
C9_OwnedInputRejected ==
  \A t \in Threads :
    (DoneCall(t, "check_inputs_not_owned") /\ SomeAnswer(t, "true"))
      => /\ Fails(t, "ServerError", "InputOwned")
         /\ Successors(th[t].h) = {}
         /\ \A h \in HandleIds : handles[h].stage # "MaybeMixedInputScripts"

\* The second input of the original transaction was the owned one.
C9_Witness ==
  /\ DoneCall(Caller, "check_inputs_not_owned")
  /\ th[Caller].answers = <<"false", "true">>
  /\ th[Caller].out.kind = "err"

\* C10: when the seen-before predicate answered true for an input's outpoint,
\* check_no_inputs_seen_before fails, reporting the seen input, and no
\* OutputsUnknown handle is made.
C10_SeenInputRejected ==
  \A t \in Threads :
    (DoneCall(t, "check_no_inputs_seen_before") /\ SomeAnswer(t, "true"))
      => /\ Fails(t, "ReceiveError", "InputSeen")
         /\ Successors(th[t].h) = {}
         /\ \A h \in HandleIds : handles[h].stage # "OutputsUnknown"

\* The second input's outpoint was the one seen before.
C10_Witness ==
  /\ DoneCall(Caller, "check_no_inputs_seen_before")
  /\ th[Caller].answers = <<"false", "true">>
  /\ th[Caller].out.kind = "err"

\* C11: identify_receiver_outputs fails and makes no PayjoinProposal handle when the
\* ownership predicate answered "not owned" for every output script of the original
\* transaction, and when the predicate answered with an error.
C11_NoReceiverOutputFails ==
  \A t \in Threads :
    (DoneCall(t, "identify_receiver_outputs") /\ th[t].got)
      => /\ (Len(th[t].answers) = request.nOut /\ AllAnswers(t, "false"))
              => /\ Fails(t, "ReceiveError", "MissingPayment")
                 /\ Successors(th[t].h) = {}
                 /\ \A h \in HandleIds : handles[h].stage # "PayjoinProposal"
         /\ SomeAnswer(t, "error")
              => /\ Fails(t, "ReceiveError", "Server")
                 /\ Successors(th[t].h) = {}
                 /\ \A h \in HandleIds : handles[h].stage # "PayjoinProposal"

\* The first output was answered "owned", the predicate failed on the second, and
\* the call failed.
C11_Witness ==
  /\ DoneCall(Caller, "identify_receiver_outputs") /\ th[Caller].got
  /\ th[Caller].answers = <<"true", "error">>
  /\ Fails(Caller, "ReceiveError", "Server")
  /\ Successors(th[Caller].h) = {}

\* C12: for an original transaction whose inputs have more than one script type,
\* check_no_mixed_input_scripts fails and makes no MaybeInputsSeen handle, and no
\* caller-supplied predicate is invoked by it.
C12_MixedInputScriptsRejected ==
  \A t \in Threads :
    /\ (DoneCall(t, "check_no_mixed_input_scripts") /\ th[t].got /\ ~UniformInputs)
         => /\ Fails(t, "ReceiveError", "MixedInputScripts")
            /\ Successors(th[t].h) = {}
            /\ \A h \in HandleIds : handles[h].stage # "MaybeInputsSeen"
    /\ th[t].m = "check_no_mixed_input_scripts"
         => (th[t].pc # "pred" /\ th[t].answers = <<>> /\ th[t].inner = "none")

\* A two-input transaction of two script types was rejected.
C12_Witness ==
  /\ DoneCall(Caller, "check_no_mixed_input_scripts") /\ th[Caller].got
  /\ Len(request.types) = 2 /\ request.types[1] # request.types[2]
  /\ th[Caller].out.kind = "err"
  /\ handles[th[Caller].h].internal = None

\* C13: when no candidate passed to try_preserving_privacy avoids the
\* unnecessary-input patterns (all of them trigger one, or there is none), the call
\* fails with SelectionError, the proposal's inputs are as before the call, and the
\* proposal value is still in the handle when the call returns.
C13_SelectionFailureChangesNothing ==
  \A t \in Threads :
    /\ (DoneCall(t, "try_preserving_privacy") /\ th[t].got
          /\ "clean" \notin th[t].arg.cands)
         => /\ Fails(t, "SelectionError", "")
            /\ ~th[t].changed
            /\ th[t].out.value = None
            /\ th[t].out.resident
            /\ ~handles[th[t].h].consumed => IsSome(handles[th[t].h].internal)
    /\ (Holding(t, "try_preserving_privacy") /\ th[t].got)
         => IsSome(handles[th[t].h].internal)

\* Every candidate offered triggered a pattern; the call failed on a proposal that
\* had no receiver input, and has none now.
C13_Witness ==
  /\ DoneCall(Caller, "try_preserving_privacy") /\ th[Caller].got
  /\ th[Caller].arg.cands = {"triggering"}
  /\ th[Caller].out.kind = "err"
  /\ IsSome(handles[th[Caller].h].internal)
  /\ Unwrapped(handles[th[Caller].h].internal).contributed = 0

\* C14: in check_can_broadcast, check_inputs_not_owned, check_no_inputs_seen_before
\* and identify_receiver_outputs, whenever the caller's predicate is being invoked
\* the calling thread does not hold the handle's lock: the value has been taken out
\* of the handle and the guard dropped, and no predicate was invoked before that.
C14_NoLockWhilePredicateRuns ==
  \A t \in Threads :
    /\ th[t].pc = "pred"
         => /\ th[t].m \in PredicateMethods
            /\ handles[th[t].h].lock # t
            /\ IsSome(th[t].taken)
            /\ handles[th[t].h].internal = None
    /\ th[t].pc = "holding" => th[t].answers = <<>>

\* The seen-before predicate has answered for the first input and is about to be
\* asked about the second; meanwhile another thread's call on the same handle has
\* acquired the lock, found the handle empty and ended.
C14_Witness ==
  /\ th[Caller].pc = "pred" /\ th[Caller].m = "check_no_inputs_seen_before"
  /\ th[Caller].answers = <<"false">>
  /\ handles[th[Caller].h].returned
  /\ handles[th[Caller].h].lock = NoThread

\* C15: a predicate that re-enters a method of the handle its stage was called on
\* is never blocked on the handle's lock; the re-entrant call finds the handle
\* empty and returns, and the stage call then completes with a result of its own.
C15_ReentrantCallReturns ==
  \A t \in Threads :
    /\ th[t].inner # "blocked"
    /\ th[t].inner # "none" => (th[t].inner = "returned" /\ th[t].pc # "unwound")

\* A builder call is between taking the guard and returning.
InBuilder(t) == th[t].pc = "holding" /\ th[t].m \in BuilderMethods

\* C16: on a PayjoinProposal handle shared by several threads, a builder call holds
\* the lock for as long as it works on the resident proposal, no two builder calls
\* are at work on a handle at once, and the value is not removed under a builder
\* call: what the call found on entry is still what the handle holds.
C16_BuilderCallsExclusive ==
  \A t \in Threads :
    InBuilder(t)
      => /\ handles[th[t].h].stage = "PayjoinProposal"
         /\ handles[th[t].h].lock = t
         /\ th[t].got = IsSome(handles[th[t].h].internal)
         /\ \A u \in Threads \ {t} : ~(InBuilder(u) /\ th[u].h = th[t].h)

\* One thread is inside try_preserving_privacy on the handle on which the other has
\* just had apply_fee succeed.
C16_Witness ==
  /\ DoneCall(Caller, "apply_fee") /\ th[Caller].out.kind = "ok"
  /\ \E u \in Threads :
       /\ u # Caller /\ InBuilder(u) /\ th[u].m = "try_preserving_privacy"
       /\ th[u].h = th[Caller].h /\ th[u].got

\* C17: whatever builder calls were made on a PayjoinProposal handle, and whether
\* they succeeded or failed, the proposal is in the handle for as long as no
\* prepare_psbt has taken it; a builder call that found the value returns with the
\* value resident.
C17_BuilderCallsKeepValue ==
  /\ \A h \in HandleIds :
       handles[h].stage = "PayjoinProposal"
         => (IsSome(handles[h].internal) <=> ~handles[h].consumed)
  /\ \A t \in Threads :
       (th[t].pc = "done" /\ th[t].m \in BuilderMethods /\ th[t].got)
         => (th[t].out.kind \in {"ok", "err"} /\ th[t].out.resident)

\* An input was contributed, the address substituted and the fee applied; a further
\* apply_fee has just failed, and the proposal is still in the handle.
C17_Witness ==
  /\ DoneCall(Caller, "apply_fee") /\ th[Caller].out.kind = "err" /\ th[Caller].afterFee
  /\ IsSome(handles[th[Caller].h].internal)
  /\ Unwrapped(handles[th[Caller].h].internal).contributed = 1
  /\ Unwrapped(handles[th[Caller].h].internal).address = "fresh"

\* C18: in a stage that takes a predicate, once the predicate has answered with an
\* error it is not invoked again, the error is the last answer, and the stage
\* returns a failure carrying it and makes no successor handle.
C18_PredicateErrorSurfaces ==
  \A t \in Threads :
    /\ th[t].pc = "pred" => ~SomeAnswer(t, "error")
    /\ (th[t].pc = "done" /\ th[t].m \in PredicateMethods /\ SomeAnswer(t, "error"))
         => /\ th[t].answers[Len(th[t].answers)] = "error"
            /\ Cardinality({i \in 1..Len(th[t].answers) : th[t].answers[i] = "error"}) = 1
            /\ th[t].out.kind = "err" /\ th[t].out.message = "Server"
            /\ Successors(th[t].h) = {}
            /\ handles[th[t].h].internal = None

\* The seen-before predicate answered for the first input and failed on the second.
C18_Witness ==
  /\ DoneCall(Caller, "check_no_inputs_seen_before")
  /\ th[Caller].answers = <<"false", "error">>
  /\ Fails(Caller, "ReceiveError", "Server")

\* C19: a call of a builder method or of prepare_psbt that begins on a
\* PayjoinProposal handle after a prepare_psbt call on it has ended (with Ok or
\* Err) never returns a result and changes no proposal: it fails, and the handle
\* stays empty.
C19_NothingAfterPreparePsbt ==
  \A t \in Threads :
    (th[t].pc = "done" /\ th[t].m \in BuilderMethods \cup {"prepare_psbt"} /\ th[t].reuse)
      => /\ th[t].out.kind = "panic"
         /\ th[t].out.value = None
         /\ ~th[t].changed /\ ~th[t].got
         /\ handles[th[t].h].internal = None

\* prepare_psbt was called again after a builder call had failed on the emptied
\* handle.
C19_Witness ==
  /\ DoneCall(Caller, "prepare_psbt") /\ th[Caller].reuse
  /\ th[Caller].out.message = "PoisonError"
  /\ handles[th[Caller].h].poisoned

\* C20: get_transaction_to_schedule_broadcast on an UncheckedProposal handle that
\* has not been consumed returns the original transaction of the request, every
\* time, and leaves the value as it was: an UncheckedProposal handle on which no take
\* was executed holds the ingested proposal, and the take that follows obtains it.
C20_ScheduleBroadcastReadOnly ==
  /\ \A t \in Threads :
       (DoneCall(t, "get_transaction_to_schedule_broadcast") /\ th[t].got)
         => /\ th[t].out.kind = "ok"
            /\ th[t].out.value = Some([types |-> request.types, nOut |-> request.nOut])
            /\ handles[th[t].h].consumed => handles[th[t].h].obtained = 1
  /\ \A h \in HandleIds :
       (handles[h].stage = "UncheckedProposal" /\ ~handles[h].consumed)
         => handles[h].internal = Some(Proposal(request))

\* The transaction was handed out, and a check_can_broadcast that followed took the
\* value and is invoking its predicate.
C20_Witness ==
  /\ DoneCall(Caller, "get_transaction_to_schedule_broadcast")
  /\ th[Caller].out.kind = "ok" /\ Len(request.types) = 2
  /\ \E u \in Threads :
       /\ u # Caller /\ th[u].pc = "pred" /\ th[u].m = "check_can_broadcast"
       /\ th[u].h = th[Caller].h /\ th[u].got

====
